---- MODULE Spec2Model ----
(***************************************************************************)
(* Model of pydoll.elements.shadow_root.ShadowRoot: one shadow root        *)
(* handle, the coroutines that call its operations, and the transport      *)
(* (ConnectionHandler.execute_command) as the environment.  Coroutines     *)
(* interleave only at their awaits, so every action is the code between    *)
(* two awaits.                                                             *)
(***************************************************************************)
EXTENDS Integers, Sequences, FiniteSets, TLC

\* ------------------------------------------------------------------ bounds
NumTasks == 1
MaxLen == 4

Tasks == 1..NumTasks

\* ---------------------------------------------------------- python values
PyNone == [t |-> "none"]
PyStr(s) == [t |-> "str", s |-> s]
PyInt(i) == [t |-> "int", i |-> i]

\* isinstance(v, str)
IsStr(v) == v.t = "str"

\* bool(v) of a str, an int or None
Truthy(v) ==
  CASE v.t = "none" -> FALSE
    [] v.t = "str" -> Len(v.s) # 0
    [] v.t = "int" -> v.i # 0

\* outcomes of a call: a returned value or a raised exception
Returned(v) == [kind |-> "return", value |-> v]
Raised(e) == [kind |-> "raise", exc |-> e]
Pending == [kind |-> "pending"]

InvalidShadowRoot(msg) == [type |-> "InvalidShadowRoot", msg |-> msg]
ElementNotFound == [type |-> "ElementNotFound"]
ValueError(msg) == [type |-> "ValueError", msg |-> msg]
TransportError == [type |-> "Exception", msg |-> "CDP error"]
KeyError == [type |-> "KeyError"]

\* the spec's names for the two ValueErrors of _sanitize_selector
InvalidSelector == ValueError("Selector must be a non-empty string")
ProhibitedSelector(pattern) ==
  [type |-> "ValueError", msg |-> "Selector contains prohibited pattern", pattern |-> pattern]
IsProhibitedSelector(e) ==
  e.type = "ValueError" /\ e.msg = "Selector contains prohibited pattern"

\* ------------------------------------------------------------ str methods
Whitespace == {" ", "\t", "\n"}

lower_char(c) ==
  CASE c = "A" -> "a" [] c = "B" -> "b" [] c = "C" -> "c" [] c = "D" -> "d"
    [] c = "E" -> "e" [] c = "F" -> "f" [] c = "G" -> "g" [] c = "H" -> "h"
    [] c = "I" -> "i" [] c = "J" -> "j" [] c = "K" -> "k" [] c = "L" -> "l"
    [] c = "M" -> "m" [] c = "N" -> "n" [] c = "O" -> "o" [] c = "P" -> "p"
    [] c = "Q" -> "q" [] c = "R" -> "r" [] c = "S" -> "s" [] c = "T" -> "t"
    [] c = "U" -> "u" [] c = "V" -> "v" [] c = "W" -> "w" [] c = "X" -> "x"
    [] c = "Y" -> "y" [] c = "Z" -> "z"
    [] OTHER -> c

\* str.lower()
lower(s) == [i \in 1..Len(s) |-> lower_char(s[i])]

\* str.strip(): drop the leading and the trailing whitespace
strip(s) ==
  LET keep == {i \in 1..Len(s) : s[i] \notin Whitespace}
  IN  IF keep = {} THEN <<>>
      ELSE LET first == CHOOSE i \in keep : \A j \in keep : i <= j
               last == CHOOSE i \in keep : \A j \in keep : j <= i
           IN  SubSeq(s, first, last)

\* pattern in s
str_in(pattern, s) ==
  \E i \in 1..(Len(s) - Len(pattern) + 1) :
    SubSeq(s, i, i + Len(pattern) - 1) = pattern

\* ------------------------------------------------------ _sanitize_selector
dangerous_patterns_no_deep ==
  << <<":", ":", "s", "h", "a", "d", "o", "w">>,
     <<"/", "d", "e", "e", "p", "/">> >>

dangerous_patterns ==
  << <<":", ":", "s", "h", "a", "d", "o", "w">>,
     <<"/", "d", "e", "e", "p", "/">>,
     <<">", ">", ">">> >>

\* the mutant compares the patterns with the selector as typed
sanitize_selector_no_lower(selector, method) ==
  IF ~Truthy(selector) \/ ~IsStr(selector)
  THEN Raised(InvalidSelector)
  ELSE LET sanitized == strip(selector.s)
           hits == {i \in 1..Len(dangerous_patterns) :
                      str_in(dangerous_patterns[i], sanitized)}
       IN  IF hits # {}
           THEN Raised(ProhibitedSelector(
                  dangerous_patterns[CHOOSE i \in hits : \A j \in hits : i <= j]))
           ELSE Returned(PyStr(sanitized))

\* the mutant returns the case-folded selector it compared
sanitize_selector_lowered(selector, method) ==
  IF ~Truthy(selector) \/ ~IsStr(selector)
  THEN Raised(InvalidSelector)
  ELSE LET sanitized == lower(strip(selector.s))
           hits == {i \in 1..Len(dangerous_patterns) :
                      str_in(dangerous_patterns[i], sanitized)}
       IN  IF hits # {}
           THEN Raised(ProhibitedSelector(
                  dangerous_patterns[CHOOSE i \in hits : \A j \in hits : i <= j]))
           ELSE Returned(PyStr(sanitized))

\* the mutant checks the type of the selector only
sanitize_selector_allow_empty(selector, method) ==
  IF ~IsStr(selector)
  THEN Raised(InvalidSelector)
  ELSE LET sanitized == strip(selector.s)
           hits == {i \in 1..Len(dangerous_patterns) :
                      str_in(dangerous_patterns[i], lower(sanitized))}
       IN  IF hits # {}
           THEN Raised(ProhibitedSelector(
                  dangerous_patterns[CHOOSE i \in hits : \A j \in hits : i <= j]))
           ELSE Returned(PyStr(sanitized))

\* the mutant looks for the css tokens in css selectors only
sanitize_selector_css_only(selector, method) ==
  IF ~Truthy(selector) \/ ~IsStr(selector)
  THEN Raised(InvalidSelector)
  ELSE LET sanitized == strip(selector.s)
           hits == {i \in 1..Len(dangerous_patterns) :
                      method = "css" /\ str_in(dangerous_patterns[i], lower(sanitized))}
       IN  IF hits # {}
           THEN Raised(ProhibitedSelector(
                  dangerous_patterns[CHOOSE i \in hits : \A j \in hits : i <= j]))
           ELSE Returned(PyStr(sanitized))

sanitize_selector(selector, method) ==
  IF ~Truthy(selector) \/ ~IsStr(selector)
  THEN Raised(InvalidSelector)
  ELSE LET sanitized == strip(selector.s)
           hits == {i \in 1..Len(dangerous_patterns) :
                      str_in(dangerous_patterns[i], lower(sanitized))}
       IN  IF hits # {}
           THEN Raised(ProhibitedSelector(
                  dangerous_patterns[CHOOSE i \in hits : \A j \in hits : i <= j]))
           ELSE Returned(PyStr(sanitized))

\* ------------------------------------------------------------------ state
VARIABLES
  init_args,              \* the arguments ShadowRoot(...) was called with
  init_outcome,           \* Pending, Returned (a handle exists) or Raised
  shadow_root_object_id,  \* self._shadow_root_object_id
  mode,                   \* self._mode
  host_element,           \* self._host_element
  is_valid,               \* self._is_valid (FALSE while no handle exists)
  task,                   \* the coroutines calling the handle's operations
  san_arg,                \* a direct call of _sanitize_selector: its arguments
  san_res,                \* ... and its outcome
  san_again,              \* a second call with the same selector
  gsr,                    \* the coroutine of WebElement.get_shadow_root
  earlier                 \* the node ids that calls already over were given

vars == <<init_args, init_outcome, shadow_root_object_id, mode, host_element,
          is_valid, task, san_arg, san_res, san_again, gsr, earlier>>

handle_vars == <<init_args, init_outcome, shadow_root_object_id, mode,
                 host_element, is_valid>>

san_vars == <<san_arg, san_res, san_again>>

\* ------------------------------------------------------------- accessors
is_open == mode = "open"
is_closed == mode = "closed"

\* ------------------------------------------------ _validate_shadow_root_config
validate_shadow_root_config_no_mode(object_id, m) ==
  IF ~Truthy(object_id) \/ ~IsStr(object_id)
  THEN Raised(InvalidShadowRoot("Invalid shadow root object ID"))
  ELSE Returned(PyNone)

\* the mutant checks the mode only
validate_shadow_root_config_no_object_id(object_id, m) ==
  IF m \notin {"open", "closed"}
  THEN Raised(InvalidShadowRoot("Invalid shadow root mode"))
  ELSE Returned(PyNone)

validate_shadow_root_config(object_id, m) ==
  IF ~Truthy(object_id) \/ ~IsStr(object_id)
  THEN Raised(InvalidShadowRoot("Invalid shadow root object ID"))
  ELSE IF m \notin {"open", "closed"}
  THEN Raised(InvalidShadowRoot("Invalid shadow root mode"))
  ELSE Returned(PyNone)

\* ---------------------------------------------- _ensure_shadow_root_accessible
ensure_shadow_root_accessible_unchecked(valid, closed) == Returned(PyNone)

\* the mutant keeps closed shadow roots shut
ensure_shadow_root_accessible_open_only(valid, closed) ==
  IF ~valid
  THEN Raised(InvalidShadowRoot("Shadow root has been invalidated"))
  ELSE IF closed
  THEN Raised([type |-> "ShadowRootAccessDenied", msg |-> "Shadow root is closed"])
  ELSE Returned(PyNone)

\* the closed-mode branch is a bare pass
ensure_shadow_root_accessible(valid, closed) ==
  IF ~valid
  THEN Raised(InvalidShadowRoot("Shadow root has been invalidated"))
  ELSE Returned(PyNone)

\* --------------------------------------------------------------- commands
\* DomCommands.*: the command is its name and its arguments
request_node(object_id) ==
  [method |-> "DOM.requestNode", object_id |-> object_id]
query_selector(node_id, selector) ==
  [method |-> "DOM.querySelector", node_id |-> node_id, selector |-> selector]
perform_search(query, include_user_agent_shadow_dom) ==
  [method |-> "DOM.performSearch", query |-> query,
   include_user_agent_shadow_dom |-> include_user_agent_shadow_dom]
resolve_node(node_id) ==
  [method |-> "DOM.resolveNode", node_id |-> node_id]
get_outer_html(object_id) ==
  [method |-> "DOM.getOuterHTML", object_id |-> object_id]

\* WebElement(object_id=..., method=..., selector=...)
WebElement(object_id, method, selector) ==
  [object_id |-> object_id, method |-> method, selector |-> selector]

\* ------------------------------------------------- what the transport answers
\* execute_command either raises or returns a response dict; a response
\* without 'result' (a protocol error reply) makes response['result'] raise
\* KeyError.  A dict is a record whose missing key holds Absent.
Absent == [t |-> "absent"]
ErrorResponse == [result |-> Absent]
HasResult(response) == response.result # Absent

NodeIds == {123, 456}
ObjectIds == {"element-789"}
Htmls == {"<div>Shadow content</div>", ""}

RequestNodeResponses ==
  {[result |-> [nodeId |-> PyInt(n)]] : n \in NodeIds} \cup {ErrorResponse}
QuerySelectorResponses ==
  {[result |-> [nodeId |-> PyInt(n)]] : n \in NodeIds \cup {0}}
    \cup {[result |-> [nodeId |-> Absent]], ErrorResponse}
PerformSearchResponses ==
  {[result |-> [searchId |-> "s1", resultCount |-> n]] : n \in {0, 1}}
    \cup {ErrorResponse}
ResolveNodeResponses ==
  {[result |-> [object |-> [objectId |-> PyStr(o)]]] : o \in ObjectIds}
    \cup {[result |-> [object |-> Absent]], ErrorResponse}
GetOuterHtmlResponses ==
  {[result |-> [outerHTML |-> PyStr(h)]] : h \in Htmls}
    \cup {[result |-> [outerHTML |-> Absent]], ErrorResponse}

Answers(responses) == {Returned(r) : r \in responses} \cup {Raised(TransportError)}

\* ------------------------------------------------------------- coroutines
\* pc: "idle", the command whose answer the coroutine awaits, or "done"
IdleTask ==
  [pc |-> "idle", op |-> "none", selector |-> PyNone, method |-> "css",
   raise_exc |-> TRUE, valid_at_call |-> TRUE, safe_selector |-> <<>>,
   node_id |-> PyNone, calls |-> <<>>, answers |-> <<>>, outcome |-> Pending]

\* the coroutine ends: it returns a value or raises
Done(tk, outcome) == [tk EXCEPT !.pc = "done", !.outcome = outcome]

\* await self._connection_handler.execute_command(command)
Send(tk, command, pc) ==
  [tk EXCEPT !.pc = pc, !.calls = Append(@, command)]

PyList(items) == [t |-> "list", items |-> items]

\* ------------------------------------------------ find_element_in_shadow
\* except Exception (lines 118-121), the mutant lets the exception through
find_element_in_shadow_except_reraise(e, raise_exc) == Raised(e)

find_element_in_shadow_except(e, raise_exc) ==
  IF raise_exc THEN Raised(ElementNotFound) ELSE Returned(PyNone)

\* what find_element_in_shadow makes of the outcome of _find_in_shadow_context
find_element_in_shadow_try(outcome, raise_exc) ==
  IF outcome.kind = "raise"
  THEN find_element_in_shadow_except(outcome.exc, raise_exc)
  ELSE outcome

\* the two except clauses of _find_in_shadow_context (lines 311-317)
find_in_shadow_context_except(e, raise_exc) ==
  IF e.type = "ElementNotFound" THEN Raised(e)
  ELSE IF raise_exc THEN Raised(ElementNotFound)
  ELSE Returned(PyNone)

\* no element found (lines 302-304 and 307-309), the mutant never raises
not_found_silent(raise_exc) == Returned(PyNone)

not_found(raise_exc) ==
  IF raise_exc THEN Raised(ElementNotFound) ELSE Returned(PyNone)

\* an outcome reached inside the try block of _find_in_shadow_context
InTry(tk, outcome) ==
  Done(tk, find_element_in_shadow_try(
             IF outcome.kind = "raise"
             THEN find_in_shadow_context_except(outcome.exc, tk.raise_exc)
             ELSE outcome,
             tk.raise_exc))

\* the mutant raises the unsupported method past the caller's except clause
find_in_shadow_context_begin_strict(tk, object_id) ==
  IF tk.method = "css"
  THEN Send(tk, request_node(object_id), "request_node")
  ELSE IF tk.method = "xpath"
  THEN Send(tk, perform_search(PyStr(tk.safe_selector), TRUE), "perform_search")
  ELSE Done(tk, Raised(ValueError("Unsupported selection method")))

\* _find_in_shadow_context up to its first await (lines 262-279)
find_in_shadow_context_begin(tk, object_id) ==
  IF tk.method = "css"
  THEN Send(tk, request_node(object_id), "request_node")
  ELSE IF tk.method = "xpath"
  THEN Send(tk, perform_search(PyStr(tk.safe_selector), TRUE), "perform_search")
  ELSE Done(tk, find_element_in_shadow_try(
                  Raised(ValueError("Unsupported selection method")), tk.raise_exc))

\* the mutant sanitizes inside the try block
find_element_in_shadow_begin_guarded(tk, valid, closed, object_id) ==
  LET accessible == ensure_shadow_root_accessible(valid, closed)
      safe_selector == sanitize_selector(tk.selector, tk.method)
  IN  IF accessible.kind = "raise" THEN Done(tk, accessible)
      ELSE IF safe_selector.kind = "raise"
      THEN Done(tk, find_element_in_shadow_try(safe_selector, tk.raise_exc))
      ELSE find_in_shadow_context_begin(
             [tk EXCEPT !.safe_selector = safe_selector.value.s], object_id)

\* find_element_in_shadow up to its first await (lines 111-117)
find_element_in_shadow_begin(tk, valid, closed, object_id) ==
  LET accessible == ensure_shadow_root_accessible(valid, closed)
      safe_selector == sanitize_selector(tk.selector, tk.method)
  IN  IF accessible.kind = "raise" THEN Done(tk, accessible)
      ELSE IF safe_selector.kind = "raise" THEN Done(tk, safe_selector)
      ELSE find_in_shadow_context_begin(
             [tk EXCEPT !.safe_selector = safe_selector.value.s], object_id)

\* request_response['result']['nodeId'] (line 268)
request_node_id(answer) ==
  IF answer.kind = "raise" THEN answer
  ELSE IF ~HasResult(answer.value) THEN Raised(KeyError)
  ELSE IF answer.value.result.nodeId = Absent THEN Raised(KeyError)
  ELSE Returned(answer.value.result.nodeId)

\* response['result'].get('nodeId') (line 282)
query_selector_node_id(answer) ==
  IF answer.kind = "raise" THEN answer
  ELSE IF ~HasResult(answer.value) THEN Raised(KeyError)
  ELSE IF answer.value.result.nodeId = Absent THEN Returned(PyNone)
  ELSE Returned(answer.value.result.nodeId)

\* obj_response['result']['object']['objectId'] (line 289)
resolve_node_object_id(answer) ==
  IF answer.kind = "raise" THEN answer
  ELSE IF ~HasResult(answer.value) THEN Raised(KeyError)
  ELSE IF answer.value.result.object = Absent THEN Raised(KeyError)
  ELSE Returned(answer.value.result.object.objectId)

\* the mutant hands out the text without its markup
outer_html_text_only(answer) ==
  IF answer.kind = "raise" THEN answer
  ELSE IF ~HasResult(answer.value) THEN Raised(KeyError)
  ELSE IF answer.value.result.outerHTML = Absent THEN Raised(KeyError)
  ELSE Returned(PyStr(""))

\* response['result']['outerHTML'] (line 166)
outer_html(answer) ==
  IF answer.kind = "raise" THEN answer
  ELSE IF ~HasResult(answer.value) THEN Raised(KeyError)
  ELSE IF answer.value.result.outerHTML = Absent THEN Raised(KeyError)
  ELSE Returned(answer.value.result.outerHTML)

\* the answer to request_node arrives (lines 265-279): outside the try block
after_request_node(tk, answer) ==
  LET node_id == request_node_id(answer)
  IN  IF node_id.kind = "raise"
      THEN Done(tk, find_element_in_shadow_try(node_id, tk.raise_exc))
      ELSE Send([tk EXCEPT !.node_id = node_id.value],
                query_selector(node_id.value, PyStr(tk.safe_selector)),
                "query_selector")

\* the mutant resolves the node the search started from
after_query_selector_resolves_root(tk, answer) ==
  LET node_id == query_selector_node_id(answer)
  IN  IF node_id.kind = "raise" THEN InTry(tk, node_id)
      ELSE IF Truthy(node_id.value)
      THEN Send(tk, resolve_node(tk.node_id), "resolve_node")
      ELSE InTry(tk, not_found(tk.raise_exc))

\* the mutant takes every node id that is not None for a match
after_query_selector_any_node(tk, answer) ==
  LET node_id == query_selector_node_id(answer)
  IN  IF node_id.kind = "raise" THEN InTry(tk, node_id)
      ELSE IF node_id.value # PyNone
      THEN Send([tk EXCEPT !.node_id = node_id.value],
                resolve_node(node_id.value), "resolve_node")
      ELSE InTry(tk, not_found(tk.raise_exc))

\* the mutant asks once more when the first query_selector found nothing
after_query_selector_retry(tk, answer) ==
  LET node_id == query_selector_node_id(answer)
  IN  IF node_id.kind = "raise" THEN InTry(tk, node_id)
      ELSE IF Truthy(node_id.value)
      THEN Send([tk EXCEPT !.node_id = node_id.value],
                resolve_node(node_id.value), "resolve_node")
      ELSE IF Len(tk.calls) < 3
      THEN Send(tk, tk.calls[Len(tk.calls)], "query_selector")
      ELSE InTry(tk, not_found(tk.raise_exc))

\* the answer to query_selector arrives (lines 279-304)
after_query_selector(tk, answer) ==
  LET node_id == query_selector_node_id(answer)
  IN  IF node_id.kind = "raise" THEN InTry(tk, node_id)
      ELSE IF Truthy(node_id.value)
      THEN Send([tk EXCEPT !.node_id = node_id.value],
                resolve_node(node_id.value), "resolve_node")
      ELSE InTry(tk, not_found(tk.raise_exc))

\* the mutant searches again for as long as the search finds nothing
after_perform_search_polling(tk, answer) ==
  IF answer.kind = "raise" THEN InTry(tk, answer)
  ELSE IF ~HasResult(answer.value) THEN InTry(tk, not_found(tk.raise_exc))
  ELSE IF answer.value.result.resultCount = 0
  THEN [tk EXCEPT !.answers = IF Len(@) >= 2 THEN <<>> ELSE @]
  ELSE InTry(tk, not_found(tk.raise_exc))

\* the answer to perform_search arrives (lines 279-281, 306-309)
after_perform_search(tk, answer) ==
  IF answer.kind = "raise" THEN InTry(tk, answer)
  ELSE InTry(tk, not_found(tk.raise_exc))

\* the answer to resolve_node arrives (lines 286-299)
after_resolve_node(tk, answer) ==
  LET object_id == resolve_node_object_id(answer)
  IN  IF object_id.kind = "raise" THEN InTry(tk, object_id)
      ELSE InTry(tk, Returned(WebElement(object_id.value, tk.method,
                                         PyStr(tk.safe_selector))))

\* ----------------------------------------------- find_elements_in_shadow
\* the mutant reports that the search is not there yet
find_multiple_in_shadow_context_unimplemented(selector, method) ==
  Raised([type |-> "NotImplementedError"])

\* the body is a placeholder: no command, an empty list
find_multiple_in_shadow_context(selector, method) == Returned(PyList(<<>>))

\* the mutant looks at the selector before it looks at the handle
find_elements_in_shadow_sanitize_first(tk, valid, closed) ==
  LET accessible == ensure_shadow_root_accessible(valid, closed)
      safe_selector == sanitize_selector(tk.selector, tk.method)
  IN  IF safe_selector.kind = "raise" THEN Done(tk, safe_selector)
      ELSE IF accessible.kind = "raise" THEN Done(tk, accessible)
      ELSE Done([tk EXCEPT !.safe_selector = safe_selector.value.s],
                find_multiple_in_shadow_context(safe_selector.value, tk.method))

find_elements_in_shadow(tk, valid, closed) ==
  LET accessible == ensure_shadow_root_accessible(valid, closed)
      safe_selector == sanitize_selector(tk.selector, tk.method)
  IN  IF accessible.kind = "raise" THEN Done(tk, accessible)
      ELSE IF safe_selector.kind = "raise" THEN Done(tk, safe_selector)
      ELSE Done([tk EXCEPT !.safe_selector = safe_selector.value.s],
                find_multiple_in_shadow_context(safe_selector.value, tk.method))

\* ----------------------------------------------- get_shadow_root_content
\* the mutant reads the object id without asking whether the handle is valid
get_shadow_root_content_begin_unchecked(tk, valid, closed, object_id) ==
  Send(tk, get_outer_html(object_id), "get_outer_html")

get_shadow_root_content_begin(tk, valid, closed, object_id) ==
  LET accessible == ensure_shadow_root_accessible(valid, closed)
  IN  IF accessible.kind = "raise" THEN Done(tk, accessible)
      ELSE Send(tk, get_outer_html(object_id), "get_outer_html")

after_get_outer_html(tk, answer) == Done(tk, outer_html(answer))

\* ----------------------------------------------------------------- inputs
InitObjectIds == {PyNone, PyStr(""), PyStr("shadow-123"), PyStr("shadow-456"), PyInt(7)}
InitModes == {"open", "closed", "invalid"}
\* no operation reads the host element; the accessor returns it as stored
HostElements == {PyStr("host-123")}

Selectors ==
  { PyNone,
    PyStr(<<>>),
    PyStr(<<" ">>),
    PyStr(<<".", "c">>),
    PyStr(<<" ", ".", "C", " ">>),
    PyStr(<<"a", " ", ">", ">", ">", " ", "b">>),
    PyStr(<<"a", "/", "D", "e", "e", "p", "/", "b">>) }
Methods == {"css", "xpath", "id"}

\* every string over a small alphabet up to MaxLen characters
Alphabet == {" ", "a", "A", ">", ":"}
RECURSIVE StringsUpTo(_)
StringsUpTo(n) ==
  IF n = 0 THEN {<<>>}
  ELSE LET shorter == StringsUpTo(n - 1)
       IN  shorter \cup {Append(s, c) : s \in {x \in shorter : Len(x) = n - 1},
                                        c \in Alphabet}

upper_char(c) ==
  CASE c = "a" -> "A" [] c = "d" -> "D" [] c = "e" -> "E" [] c = "h" -> "H"
    [] c = "o" -> "O" [] c = "p" -> "P" [] c = "s" -> "S" [] c = "w" -> "W"
    [] OTHER -> c

\* every spelling of a pattern in upper and lower case letters
RECURSIVE SpellingsOfPrefix(_, _)
SpellingsOfPrefix(pattern, n) ==
  IF n = 0 THEN {<<>>}
  ELSE {Append(s, c) : s \in SpellingsOfPrefix(pattern, n - 1),
                       c \in {pattern[n], upper_char(pattern[n])}}

Spellings(pattern) == SpellingsOfPrefix(pattern, Len(pattern))

Affixes == {<<>>, <<" ">>, <<"a">>, <<"A", " ">>, <<">", ">">>, <<":">>, <<"/", "d">>}

\* near misses: a pattern with one character missing or split by a space
NearMisses ==
  { <<":", "s", "h", "a", "d", "o", "w">>,
    <<":", ":", "s", "h", "a", "d", "o">>,
    <<":", ":", " ", "s", "h", "a", "d", "o", "w">>,
    <<"/", "d", "e", "e", "p">>,
    <<"d", "e", "e", "p", "/">>,
    <<"/", "D", "E", "P", "/">>,
    <<">", ">", " ", ">">>,
    <<"b", "u", "t", "t", "o", "n", ".", "S", "u", "b", "m", "i", "t">> }

SanSelectors ==
  {PyNone, PyInt(0), PyInt(7)}
    \cup {PyStr(s) : s \in StringsUpTo(MaxLen)}
    \cup {PyStr(p \o s \o q) :
            p \in Affixes, q \in Affixes,
            s \in NearMisses \cup UNION {Spellings(dangerous_patterns[i]) :
                                           i \in 1..Len(dangerous_patterns)}}

NoCall == [selector |-> PyNone, method |-> "none"]
NoAgain == [method |-> "none", res |-> Pending]

\* WebElement.get_shadow_root not called
IdleGet ==
  [pc |-> "idle", object_id |-> PyNone, node |-> Absent, calls |-> <<>>,
   answers |-> <<>>, outcome |-> Pending]

\* ------------------------------------------------------------------ Init
Init ==
  /\ init_args = [object_id |-> PyNone, mode |-> "none", host_element |-> PyNone]
  /\ init_outcome = Pending
  /\ shadow_root_object_id = PyNone
  /\ mode = "none"
  /\ host_element = PyNone
  /\ is_valid = FALSE
  /\ task = [t \in Tasks |-> IdleTask]
  /\ san_arg = NoCall
  /\ san_res = Pending
  /\ san_again = NoAgain
  /\ gsr = IdleGet
  /\ earlier = {}

\* ---------------------------------------------------------------- actions
\* ShadowRoot.__init__
New(object_id, m, host) ==
  /\ init_outcome = Pending
  /\ init_args' = [object_id |-> object_id, mode |-> m, host_element |-> host]
  /\ LET checked == validate_shadow_root_config(object_id, m)
     IN  IF checked.kind = "raise"
         THEN /\ init_outcome' = checked
              /\ UNCHANGED <<shadow_root_object_id, mode, host_element, is_valid>>
         ELSE /\ init_outcome' = Returned(PyNone)
              /\ shadow_root_object_id' = object_id
              /\ mode' = m
              /\ host_element' = host
              /\ is_valid' = TRUE
  /\ UNCHANGED <<task, san_vars, gsr, earlier>>

invalidate_toggle ==
  /\ init_outcome.kind = "return"
  /\ is_valid' = ~is_valid
  /\ UNCHANGED <<init_args, init_outcome, shadow_root_object_id, mode,
                 host_element, task, san_vars, gsr, earlier>>

\* ShadowRoot.invalidate
invalidate ==
  /\ init_outcome.kind = "return"
  /\ is_valid' = FALSE
  /\ UNCHANGED <<init_args, init_outcome, shadow_root_object_id, mode,
                 host_element, task, san_vars, gsr, earlier>>

Call(op, selector, method, raise_exc) ==
  [IdleTask EXCEPT !.op = op, !.selector = selector, !.method = method,
                   !.raise_exc = raise_exc, !.valid_at_call = is_valid]

Receive(t, answer) == [task[t] EXCEPT !.answers = Append(@, answer)]

\* the mutant remembers the node of the shadow root from one call to the next
CallFindElement_cached(t, selector, method, raise_exc) ==
  /\ init_outcome.kind = "return"
  /\ task[t].pc = "idle"
  /\ LET tk == Call("find_element_in_shadow", selector, method, raise_exc)
         fresh == find_element_in_shadow_begin(tk, is_valid, is_closed,
                                               shadow_root_object_id)
         node_id == CHOOSE n \in earlier : TRUE
     IN  task' = [task EXCEPT ![t] =
           IF earlier # {} /\ fresh.pc = "request_node"
           THEN Send([tk EXCEPT !.safe_selector = fresh.safe_selector,
                                !.node_id = node_id],
                     query_selector(node_id, PyStr(fresh.safe_selector)),
                     "query_selector")
           ELSE fresh]
  /\ UNCHANGED <<handle_vars, san_vars, gsr, earlier>>

CallFindElement(t, selector, method, raise_exc) ==
  /\ init_outcome.kind = "return"
  /\ task[t].pc = "idle"
  /\ task' = [task EXCEPT ![t] =
       find_element_in_shadow_begin(
         Call("find_element_in_shadow", selector, method, raise_exc),
         is_valid, is_closed, shadow_root_object_id)]
  /\ UNCHANGED <<handle_vars, san_vars, gsr, earlier>>

RequestNodeReturns(t, answer) ==
  /\ task[t].pc = "request_node"
  /\ task' = [task EXCEPT ![t] = after_request_node(Receive(t, answer), answer)]
  /\ UNCHANGED <<handle_vars, san_vars, gsr, earlier>>

QuerySelectorReturns(t, answer) ==
  /\ task[t].pc = "query_selector"
  /\ task' = [task EXCEPT ![t] = after_query_selector(Receive(t, answer), answer)]
  /\ UNCHANGED <<handle_vars, san_vars, gsr, earlier>>

PerformSearchReturns(t, answer) ==
  /\ task[t].pc = "perform_search"
  /\ task' = [task EXCEPT ![t] = after_perform_search(Receive(t, answer), answer)]
  /\ UNCHANGED <<handle_vars, san_vars, gsr, earlier>>

ResolveNodeReturns(t, answer) ==
  /\ task[t].pc = "resolve_node"
  /\ task' = [task EXCEPT ![t] = after_resolve_node(Receive(t, answer), answer)]
  /\ UNCHANGED <<handle_vars, san_vars, gsr, earlier>>

CallFindElements(t, selector, method) ==
  /\ init_outcome.kind = "return"
  /\ task[t].pc = "idle"
  /\ task' = [task EXCEPT ![t] =
       find_elements_in_shadow(
         Call("find_elements_in_shadow", selector, method, TRUE),
         is_valid, is_closed)]
  /\ UNCHANGED <<handle_vars, san_vars, gsr, earlier>>

CallGetContent(t) ==
  /\ init_outcome.kind = "return"
  /\ task[t].pc = "idle"
  /\ task' = [task EXCEPT ![t] =
       get_shadow_root_content_begin(
         Call("get_shadow_root_content", PyNone, "css", TRUE),
         is_valid, is_closed, shadow_root_object_id)]
  /\ UNCHANGED <<handle_vars, san_vars, gsr, earlier>>

\* the mutant gives up the handle when the transport fails
GetOuterHtmlReturns_invalidating(t, answer) ==
  /\ task[t].pc = "get_outer_html"
  /\ task' = [task EXCEPT ![t] = after_get_outer_html(Receive(t, answer), answer)]
  /\ is_valid' = IF answer.kind = "raise" THEN FALSE ELSE is_valid
  /\ UNCHANGED <<init_args, init_outcome, shadow_root_object_id, mode,
                 host_element, san_vars, gsr, earlier>>

GetOuterHtmlReturns(t, answer) ==
  /\ task[t].pc = "get_outer_html"
  /\ task' = [task EXCEPT ![t] = after_get_outer_html(Receive(t, answer), answer)]
  /\ UNCHANGED <<handle_vars, san_vars, gsr, earlier>>

\* the caller takes the outcome; the coroutine object is gone
Return(t) ==
  /\ task[t].pc = "done"
  /\ task' = [task EXCEPT ![t] = IdleTask]
  /\ UNCHANGED <<handle_vars, san_vars, gsr, earlier>>

Next ==
  \/ \E o \in InitObjectIds, m \in InitModes, h \in HostElements : New(o, m, h)
  \/ invalidate
  \/ \E t \in Tasks, s \in Selectors, m \in Methods, r \in BOOLEAN :
       CallFindElement(t, s, m, r)
  \/ \E t \in Tasks, a \in Answers(RequestNodeResponses) : RequestNodeReturns(t, a)
  \/ \E t \in Tasks, a \in Answers(QuerySelectorResponses) : QuerySelectorReturns(t, a)
  \/ \E t \in Tasks, a \in Answers(PerformSearchResponses) : PerformSearchReturns(t, a)
  \/ \E t \in Tasks, a \in Answers(ResolveNodeResponses) : ResolveNodeReturns(t, a)
  \/ \E t \in Tasks, s \in Selectors, m \in Methods : CallFindElements(t, s, m)
  \/ \E t \in Tasks : CallGetContent(t)
  \/ \E t \in Tasks, a \in Answers(GetOuterHtmlResponses) : GetOuterHtmlReturns(t, a)
  \/ \E t \in Tasks : Return(t)

Spec == Init /\ [][Next]_vars

\* --------------------------------------- _sanitize_selector called directly
InitSan ==
  /\ init_args = [object_id |-> PyNone, mode |-> "none", host_element |-> PyNone]
  /\ init_outcome = Pending
  /\ shadow_root_object_id = PyNone
  /\ mode = "none"
  /\ host_element = PyNone
  /\ is_valid = FALSE
  /\ task = [t \in Tasks |-> IdleTask]
  /\ san_arg \in [selector : SanSelectors, method : Methods]
  /\ san_res = Pending
  /\ san_again = NoAgain
  /\ gsr = IdleGet
  /\ earlier = {}

CallSanitize ==
  /\ san_res = Pending
  /\ san_res' = sanitize_selector(san_arg.selector, san_arg.method)
  /\ UNCHANGED <<handle_vars, task, san_arg, san_again, gsr, earlier>>

\* the same selector sanitized once more, for another method
CallSanitizeAgain(method) ==
  /\ san_res # Pending
  /\ san_again = NoAgain
  /\ method # san_arg.method
  /\ san_again' = [method |-> method,
                   res |-> sanitize_selector(san_arg.selector, method)]
  /\ UNCHANGED <<handle_vars, task, san_arg, san_res, gsr, earlier>>

NextSan ==
  \/ CallSanitize
  \/ \E m \in Methods : CallSanitizeAgain(m)

SpecSan == InitSan /\ [][NextSan]_vars

\* ------------------------------------------------------------------ claims
\* The deny-list as the specification gives it: '::shadow', '/deep/', '>>>'.
DenyList ==
  { <<":", ":", "s", "h", "a", "d", "o", "w">>,
    <<"/", "d", "e", "e", "p", "/">>,
    <<">", ">", ">">> }

\* s holds a deny-list token at some position, in any letter case
HasDenyListToken(s) ==
  \E p \in DenyList : \E i \in 1..(Len(s) - Len(p) + 1) :
    \A j \in 1..Len(p) : s[i + j - 1] \in {p[j], upper_char(p[j])}

PiercingSelector(selector) == IsStr(selector) /\ HasDenyListToken(selector.s)
EmptySelector(selector) == selector \in {PyNone, PyStr(<<>>)}

FindOne(tk) == tk.op = "find_element_in_shadow"
FindAll(tk) == tk.op = "find_elements_in_shadow"
GetContent(tk) == tk.op = "get_shadow_root_content"

Invalidated == InvalidShadowRoot("Shadow root has been invalidated")

\* the outcome raise_exc asks for when there is no element to return
MissOutcome(tk) ==
  IF tk.raise_exc THEN Raised(ElementNotFound) ELSE Returned(PyNone)

LastAnswer(tk) == tk.answers[Len(tk.answers)]

\* C1: every selector holding a deny-list token, at any position and in any
\* letter case, makes _sanitize_selector raise the prohibited-pattern error;
\* no selector is returned.
C1_DenyListTokenRejected ==
  (san_res # Pending /\ PiercingSelector(san_arg.selector))
    => (san_res.kind = "raise" /\ IsProhibitedSelector(san_res.exc))

C1_Witness ==
  /\ san_arg.selector =
       PyStr(<<"A", " ", ":", ":", "S", "h", "A", "d", "O", "w", "a">>)
  /\ san_res.kind = "raise"
  /\ IsProhibitedSelector(san_res.exc)

\* C2: find_element_in_shadow and find_elements_in_shadow called on a valid
\* handle with a selector holding a boundary-piercing token fail with the
\* prohibited-pattern error and send no command to the transport.
C2_PiercingSelectorSendsNothing ==
  \A t \in Tasks :
    (/\ FindOne(task[t]) \/ FindAll(task[t])
     /\ task[t].valid_at_call
     /\ PiercingSelector(task[t].selector))
    => /\ task[t].pc = "done"
       /\ task[t].outcome.kind = "raise"
       /\ IsProhibitedSelector(task[t].outcome.exc)
       /\ Len(task[t].calls) = 0

C2_Witness ==
  \E t \in Tasks :
    /\ FindOne(task[t])
    /\ task[t].valid_at_call
    /\ task[t].method = "css"
    /\ ~task[t].raise_exc
    /\ task[t].selector = PyStr(<<"a", " ", ">", ">", ">", " ", "b">>)
    /\ task[t].pc = "done"
    /\ Len(task[t].calls) = 0

\* C3: an operation started on an invalidated handle (find_element_in_shadow,
\* find_elements_in_shadow, get_shadow_root_content) raises InvalidShadowRoot
\* and sends no command to the transport.
C3_InvalidatedHandleRefuses ==
  \A t \in Tasks :
    (task[t].pc # "idle" /\ ~task[t].valid_at_call)
    => /\ task[t].pc = "done"
       /\ task[t].outcome = Raised(Invalidated)
       /\ Len(task[t].calls) = 0

C3_Witness ==
  \E t \in Tasks :
    /\ GetContent(task[t])
    /\ ~task[t].valid_at_call
    /\ task[t].pc = "done"
    /\ task[t].outcome = Raised(Invalidated)

\* C4: the validity flag is one-way: a handle starts valid, invalidate() makes
\* it invalid (also when it already is), and no step of any operation makes an
\* invalid handle valid again.
C4_ValidityOneWay ==
  [][ /\ (init_outcome = Pending /\ init_outcome'.kind = "return") => is_valid'
      /\ invalidate => ~is_valid'
      /\ (init_outcome.kind = "return" /\ ~is_valid) => ~is_valid' ]_vars

C4_Witness ==
  /\ init_outcome.kind = "return"
  /\ ~is_valid
  /\ \E t \in Tasks : task[t].pc = "done" /\ ~task[t].valid_at_call

\* C5: ShadowRoot(...) raises InvalidShadowRoot and leaves no handle exactly
\* when the object id is not a non-empty string or the mode is neither 'open'
\* nor 'closed'; otherwise it raises nothing and the new handle is valid and
\* holds the arguments.
C5_Construction ==
  /\ [](init_outcome # Pending =>
          IF \/ ~IsStr(init_args.object_id)
             \/ init_args.object_id = PyStr("")
             \/ init_args.mode \notin {"open", "closed"}
          THEN /\ init_outcome.kind = "raise"
               /\ init_outcome.exc.type = "InvalidShadowRoot"
               /\ shadow_root_object_id = PyNone
               /\ \A t \in Tasks : task[t].pc = "idle"
          ELSE /\ init_outcome.kind = "return"
               /\ shadow_root_object_id = init_args.object_id
               /\ mode = init_args.mode)
  /\ [][(init_outcome = Pending /\ init_outcome'.kind = "return") => is_valid']_vars

C5_Witness ==
  /\ init_args.object_id = PyStr("shadow-123")
  /\ init_args.mode = "invalid"
  /\ init_outcome.kind = "raise"
  /\ init_outcome.exc.type = "InvalidShadowRoot"

\* a find_element_in_shadow that ended on an answer reporting zero matches
ZeroMatches(tk) ==
  /\ FindOne(tk)
  /\ tk.pc = "done"
  /\ Len(tk.answers) > 0
  /\ LastAnswer(tk).kind = "return"
  /\ HasResult(LastAnswer(tk).value)
  /\ \/ /\ tk.method = "css"
        /\ Len(tk.answers) = 2
        /\ LastAnswer(tk).value.result.nodeId \in {Absent, PyInt(0)}
     \/ /\ tk.method = "xpath"
        /\ LastAnswer(tk).value.result.resultCount = 0

\* the commands of a miss, written without raise_exc
MissCalls(tk) ==
  IF tk.method = "css"
  THEN << request_node(shadow_root_object_id),
          query_selector(tk.answers[1].value.result.nodeId,
                         PyStr(strip(tk.selector.s))) >>
  ELSE << perform_search(PyStr(strip(tk.selector.s)), TRUE) >>

\* C6: find_element_in_shadow on a valid handle with a well-formed selector
\* and zero matches raises ElementNotFound when raise_exc is true and returns
\* None when it is false, and the commands it sent are the same in both cases.
C6_MissFollowsRaiseExc ==
  /\ \A t \in Tasks :
       ZeroMatches(task[t])
       => /\ task[t].outcome = MissOutcome(task[t])
          /\ task[t].calls = MissCalls(task[t])
  /\ \A t, u \in Tasks :
       (/\ ZeroMatches(task[t]) /\ ZeroMatches(task[u])
        /\ task[t].selector = task[u].selector
        /\ task[t].method = task[u].method
        /\ task[t].answers = task[u].answers)
       => task[t].calls = task[u].calls

C6_Witness ==
  \E t \in Tasks :
    /\ ZeroMatches(task[t])
    /\ task[t].method = "css"
    /\ ~task[t].raise_exc
    /\ task[t].outcome = Returned(PyNone)
    /\ Len(task[t].calls) = 2

\* a css find_element_in_shadow that returned an element
FoundByCss(tk) ==
  /\ FindOne(tk)
  /\ tk.method = "css"
  /\ tk.pc = "done"
  /\ tk.outcome.kind = "return"
  /\ tk.outcome.value # PyNone

\* C7: a successful css find_element_in_shadow sends exactly request_node,
\* query_selector, resolve_node in this order and returns an element whose
\* object id is the one of the last answer and whose selector and method are
\* the ones the caller passed.
C7_SuccessCarriesCallerSelector ==
  \A t \in Tasks :
    FoundByCss(task[t])
    => /\ Len(task[t].calls) = 3
       /\ task[t].calls[1].method = "DOM.requestNode"
       /\ task[t].calls[2].method = "DOM.querySelector"
       /\ task[t].calls[3].method = "DOM.resolveNode"
       /\ task[t].outcome.value.object_id =
            LastAnswer(task[t]).value.result.object.objectId
       /\ task[t].outcome.value.method = task[t].method
       /\ task[t].outcome.value.selector = task[t].selector

\* a find_element_in_shadow whose last command the transport failed
TransportFault(tk) ==
  /\ FindOne(tk)
  /\ tk.pc = "done"
  /\ Len(tk.answers) > 0
  /\ LastAnswer(tk) = Raised(TransportError)

\* C8: when the transport fails at any command of find_element_in_shadow
\* (request_node, the match, resolve_node), the caller gets ElementNotFound
\* when raise_exc is true and None when it is false, and nothing else.
C8_TransportFaultFollowsRaiseExc ==
  \A t \in Tasks :
    TransportFault(task[t]) => task[t].outcome = MissOutcome(task[t])

C8_Witness ==
  \E t \in Tasks :
    /\ TransportFault(task[t])
    /\ Len(task[t].calls) = 3
    /\ task[t].raise_exc
    /\ task[t].outcome = Raised(ElementNotFound)

\* C9: in find_element_in_shadow on a valid handle, an empty selector raises
\* the non-empty-string error and a selector with a deny-list token raises the
\* prohibited-pattern error, whatever raise_exc is: neither becomes
\* ElementNotFound or None.
C9_SanitizationErrorUnchanged ==
  \A t \in Tasks :
    (FindOne(task[t]) /\ task[t].valid_at_call)
    => /\ EmptySelector(task[t].selector)
            => task[t].outcome = Raised(InvalidSelector)
       /\ PiercingSelector(task[t].selector)
            => /\ task[t].outcome.kind = "raise"
               /\ IsProhibitedSelector(task[t].outcome.exc)

C9_Witness ==
  \E t \in Tasks :
    /\ FindOne(task[t])
    /\ task[t].valid_at_call
    /\ ~task[t].raise_exc
    /\ task[t].selector = PyStr(<<>>)
    /\ task[t].outcome = Raised(InvalidSelector)

\* C10: whatever the operation, an exception raised by the transport or by
\* reading a malformed response never reaches the caller as it is: what the
\* caller gets is one of the error kinds of pydoll.exceptions.
C10_NoRawTransportException ==
  \A t \in Tasks :
    (task[t].pc = "done" /\ task[t].outcome.kind = "raise")
    => task[t].outcome.exc.type \notin {"Exception", "KeyError"}

\* a find_elements_in_shadow that was let through to the multi-element search
FindAllAdmitted(tk) ==
  /\ FindAll(tk)
  /\ tk.pc = "done"
  /\ tk.valid_at_call
  /\ tk.outcome.kind = "return"

\* C11: find_elements_in_shadow on a valid handle with a well-formed selector
\* resolves the handle's object id to a node id and then sends a match-all
\* command, before it returns its elements.
C11_FindAllQueriesRemote ==
  \A t \in Tasks :
    FindAllAdmitted(task[t])
    => /\ Len(task[t].calls) = 2
       /\ task[t].calls[1] = request_node(shadow_root_object_id)
       /\ task[t].calls[2].method = "DOM.querySelectorAll"

\* C12: find_elements_in_shadow on a valid handle with a well-formed selector
\* and no matching element returns an empty list and raises nothing.
C12_FindAllMissIsEmptyList ==
  \A t \in Tasks :
    (/\ FindAll(task[t])
     /\ task[t].valid_at_call
     /\ ~EmptySelector(task[t].selector)
     /\ ~PiercingSelector(task[t].selector))
    => /\ task[t].pc = "done"
       /\ task[t].outcome = Returned(PyList(<<>>))

C12_Witness ==
  \E t \in Tasks :
    /\ FindAll(task[t])
    /\ task[t].valid_at_call
    /\ task[t].selector = PyStr(<<".", "c">>)
    /\ task[t].method = "css"
    /\ task[t].outcome = Returned(PyList(<<>>))

\* an xpath find_element_in_shadow whose search the remote end answered with
\* one result
XPathMatched(tk) ==
  /\ FindOne(tk)
  /\ tk.method = "xpath"
  /\ tk.pc = "done"
  /\ Len(tk.answers) > 0
  /\ LastAnswer(tk).kind = "return"
  /\ HasResult(LastAnswer(tk).value)
  /\ LastAnswer(tk).value.result.resultCount > 0

\* C13: an xpath find_element_in_shadow whose search reports a match goes on
\* to resolve the matched node and returns an element, like the css method;
\* it ends as a miss only when nothing matched.
C13_XPathMatchReturnsElement ==
  \A t \in Tasks :
    XPathMatched(task[t])
    => /\ task[t].outcome.kind = "return"
       /\ task[t].outcome.value # PyNone

\* a get_shadow_root_content called on a valid handle
ContentRead(tk) == GetContent(tk) /\ tk.pc # "idle" /\ tk.valid_at_call

\* C14: get_shadow_root_content on a valid handle sends exactly one command,
\* get_outer_html for the handle's own object id, and returns the outerHTML
\* string of the answer as it is.
C14_ContentReadThrough ==
  \A t \in Tasks :
    ContentRead(task[t])
    => /\ task[t].calls = <<get_outer_html(shadow_root_object_id)>>
       /\ task[t].calls[1].object_id = init_args.object_id
       /\ (/\ task[t].pc = "done"
           /\ LastAnswer(task[t]).kind = "return"
           /\ HasResult(LastAnswer(task[t]).value)
           /\ LastAnswer(task[t]).value.result.outerHTML # Absent)
          => task[t].outcome =
               Returned(LastAnswer(task[t]).value.result.outerHTML)

C14_Witness ==
  \E t \in Tasks :
    /\ ContentRead(task[t])
    /\ task[t].pc = "done"
    /\ task[t].outcome = Returned(PyStr("<div>Shadow content</div>"))
    /\ shadow_root_object_id = PyStr("shadow-456")

\* r is s without its leading and its trailing whitespace, nothing else changed
IsTrimOf(r, s) ==
  \E a, b \in 0..Len(s) :
    /\ a + b <= Len(s)
    /\ r = SubSeq(s, a + 1, Len(s) - b)
    /\ \A i \in 1..a : s[i] \in Whitespace
    /\ \A i \in (Len(s) - b + 1)..Len(s) : s[i] \in Whitespace
    /\ Len(r) > 0 => (r[1] \notin Whitespace /\ r[Len(r)] \notin Whitespace)

\* C15: for a non-empty selector without a deny-list token, _sanitize_selector
\* returns the selector without its leading and trailing whitespace and with
\* every other character, and its letter case, as the caller wrote it.
C15_CleanSelectorIsTrimmedInput ==
  (/\ san_res # Pending
   /\ IsStr(san_arg.selector)
   /\ Len(san_arg.selector.s) > 0
   /\ ~HasDenyListToken(san_arg.selector.s))
  => /\ san_res.kind = "return"
     /\ IsStr(san_res.value)
     /\ IsTrimOf(san_res.value.s, san_arg.selector.s)

C15_Witness ==
  /\ san_arg.selector = PyStr(<<" ", "A", "a", " ">>)
  /\ san_res = Returned(PyStr(<<"A", "a">>))

\* C16: a selector that is empty or not a string makes find_element_in_shadow
\* and find_elements_in_shadow on a valid handle fail with the non-empty-string
\* error of _sanitize_selector, and no command is sent.
C16_EmptySelectorSendsNothing ==
  \A t \in Tasks :
    (/\ FindOne(task[t]) \/ FindAll(task[t])
     /\ task[t].valid_at_call
     /\ ~IsStr(task[t].selector) \/ task[t].selector = PyStr(<<>>))
    => /\ task[t].pc = "done"
       /\ task[t].outcome = Raised(InvalidSelector)
       /\ Len(task[t].calls) = 0

C16_Witness ==
  \E t \in Tasks :
    /\ FindAll(task[t])
    /\ task[t].valid_at_call
    /\ task[t].selector = PyNone
    /\ task[t].outcome = Raised(InvalidSelector)
    /\ Len(task[t].calls) = 0

\* C17: the outcome of _sanitize_selector does not depend on the method: the
\* same selector sanitized for two methods gives the same error or the same
\* string.
C17_SanitizeIgnoresMethod ==
  san_again.res # Pending
    => /\ san_again.method # san_arg.method
       /\ san_again.res = san_res

C17_Witness ==
  /\ san_arg.method = "css"
  /\ san_again.method = "xpath"
  /\ san_arg.selector = PyStr(<<">", ">", ">">>)
  /\ san_again.res.kind = "raise"
  /\ IsProhibitedSelector(san_again.res.exc)

\* the same call made on an open-mode handle with the same object id
OpenCall(tk) ==
  LET c == [IdleTask EXCEPT !.op = tk.op, !.selector = tk.selector,
                            !.method = tk.method, !.raise_exc = tk.raise_exc,
                            !.valid_at_call = tk.valid_at_call]
  IN  IF FindOne(tk)
      THEN find_element_in_shadow_begin(c, tk.valid_at_call, FALSE,
                                        shadow_root_object_id)
      ELSE IF FindAll(tk)
      THEN find_elements_in_shadow(c, tk.valid_at_call, FALSE)
      ELSE get_shadow_root_content_begin(c, tk.valid_at_call, FALSE,
                                         shadow_root_object_id)

\* the open-mode coroutine takes the next answer of the transport
OpenStep(tk, answer) ==
  LET got == [tk EXCEPT !.answers = Append(@, answer)]
  IN  IF tk.pc = "request_node" THEN after_request_node(got, answer)
      ELSE IF tk.pc = "query_selector" THEN after_query_selector(got, answer)
      ELSE IF tk.pc = "perform_search" THEN after_perform_search(got, answer)
      ELSE IF tk.pc = "resolve_node" THEN after_resolve_node(got, answer)
      ELSE IF tk.pc = "get_outer_html" THEN after_get_outer_html(got, answer)
      ELSE tk

RECURSIVE OpenRun(_, _, _)
OpenRun(tk, answers, i) ==
  IF i > Len(answers) THEN tk
  ELSE OpenRun(OpenStep(tk, answers[i]), answers, i + 1)

\* C18: what a call on a closed-mode handle has sent and how it has ended is
\* what the same call, given the same answers, sends and ends with on an
\* open-mode handle.
C18_ClosedModeAsOpen ==
  \A t \in Tasks :
    (is_closed /\ task[t].pc # "idle")
    => LET open == OpenRun(OpenCall(task[t]), task[t].answers, 1)
       IN  /\ task[t].calls = open.calls
           /\ task[t].pc = open.pc
           /\ task[t].outcome = open.outcome

C18_Witness ==
  \E t \in Tasks :
    /\ is_closed
    /\ FoundByCss(task[t])
    /\ Len(task[t].calls) = 3


\* ------------------------------------------- WebElement.get_shadow_root
ShadowRootAccessDenied(msg) == [type |-> "ShadowRootAccessDenied", msg |-> msg]

describe_node(object_id) ==
  [method |-> "DOM.describeNode", object_id |-> object_id]

\* the elements get_shadow_root is called on
ElementObjectIds == {"element-123", "element-456", "element-789"}
ShadowRootObjectIds == {"shadow-root-789", "shadow-456"}

\* an entry of result.root.shadowRoots; the remote end may leave out nodeId
ShadowRootEntries ==
  [nodeId : {PyInt(n) : n \in NodeIds} \cup {Absent},
   shadowRootType : {"open", "closed"}]
DescribeNodeResponses ==
  {[result |-> [root |-> [shadowRoots |-> <<>>]]]}
    \cup {[result |-> [root |-> [shadowRoots |-> <<e>>]]] : e \in ShadowRootEntries}
ResolveShadowRootResponses ==
  {[result |-> [object |-> [objectId |-> PyStr(o)]]] : o \in ShadowRootObjectIds}

\* the handle get_shadow_root returns
ShadowRoot(object_id, m, host) ==
  [t |-> "ShadowRoot", object_id |-> object_id, mode |-> m, host_element |-> host]

GetDone(g, outcome) == [g EXCEPT !.pc = "done", !.outcome = outcome]
GetSend(g, command, pc) == [g EXCEPT !.pc = pc, !.calls = Append(@, command)]
GetReceive(answer) == [gsr EXCEPT !.answers = Append(@, answer)]

\* the mutant lets the fault of the transport through
get_shadow_root_except_reraise(e) == Raised(e)

\* a fault during the describe/resolve round trip
get_shadow_root_except(e) ==
  Raised(ShadowRootAccessDenied("Failed to access shadow root"))

get_shadow_root_begin(g, object_id) ==
  GetSend([g EXCEPT !.object_id = object_id], describe_node(object_id),
          "describe_node")

\* the mutant takes an element without a shadow root for a failure
after_describe_node_strict(g, answer) ==
  IF answer.kind = "raise" THEN GetDone(g, get_shadow_root_except(answer.exc))
  ELSE LET shadow_roots == answer.value.result.root.shadowRoots
       IN  IF Len(shadow_roots) = 0 \/ shadow_roots[1].nodeId = Absent
           THEN GetDone(g, Raised(ShadowRootAccessDenied("no nodeId available")))
           ELSE GetSend([g EXCEPT !.node = shadow_roots[1]],
                        resolve_node(shadow_roots[1].nodeId), "resolve_node")

\* the description of the element arrives
after_describe_node(g, answer) ==
  IF answer.kind = "raise" THEN GetDone(g, get_shadow_root_except(answer.exc))
  ELSE LET shadow_roots == answer.value.result.root.shadowRoots
       IN  IF Len(shadow_roots) = 0 THEN GetDone(g, Returned(PyNone))
           ELSE IF shadow_roots[1].nodeId = Absent
           THEN GetDone(g, Raised(ShadowRootAccessDenied("no nodeId available")))
           ELSE GetSend([g EXCEPT !.node = shadow_roots[1]],
                        resolve_node(shadow_roots[1].nodeId), "resolve_node")

CallGetShadowRoot(object_id) ==
  /\ gsr.pc = "idle"
  /\ init_outcome = Pending
  /\ gsr' = get_shadow_root_begin(IdleGet, PyStr(object_id))
  /\ UNCHANGED <<handle_vars, task, san_vars, earlier>>

DescribeNodeReturns(answer) ==
  /\ gsr.pc = "describe_node"
  /\ gsr' = after_describe_node(GetReceive(answer), answer)
  /\ UNCHANGED <<handle_vars, task, san_vars, earlier>>

\* the object of the shadow root arrives: the handle is constructed with the
\* element as its host, and a construction error surfaces unchanged
ResolveShadowRootReturns(answer) ==
  /\ gsr.pc = "resolve_node"
  /\ LET g == GetReceive(answer)
     IN  IF answer.kind = "raise"
         THEN /\ gsr' = GetDone(g, get_shadow_root_except(answer.exc))
              /\ UNCHANGED handle_vars
         ELSE LET object_id == answer.value.result.object.objectId
                  m == g.node.shadowRootType
                  checked == validate_shadow_root_config(object_id, m)
              IN  /\ init_args' = [object_id |-> object_id, mode |-> m,
                                   host_element |-> g.object_id]
                  /\ IF checked.kind = "raise"
                     THEN /\ init_outcome' = checked
                          /\ gsr' = GetDone(g, checked)
                          /\ UNCHANGED <<shadow_root_object_id, mode,
                                         host_element, is_valid>>
                     ELSE /\ init_outcome' = Returned(PyNone)
                          /\ shadow_root_object_id' = object_id
                          /\ mode' = m
                          /\ host_element' = g.object_id
                          /\ is_valid' = TRUE
                          /\ gsr' = GetDone(g, Returned(
                                      ShadowRoot(object_id, m, g.object_id)))
  /\ UNCHANGED <<task, san_vars, earlier>>

\* the caller takes the outcome of get_shadow_root
ReturnGet ==
  /\ gsr.pc = "done"
  /\ gsr' = IdleGet
  /\ UNCHANGED <<handle_vars, task, san_vars, earlier>>

\* an element is asked for its shadow root and the handle, if any, is read
NextGet ==
  \/ \E o \in ElementObjectIds : CallGetShadowRoot(o)
  \/ \E a \in Answers(DescribeNodeResponses) : DescribeNodeReturns(a)
  \/ \E a \in Answers(ResolveShadowRootResponses) : ResolveShadowRootReturns(a)
  \/ ReturnGet
  \/ invalidate
  \/ \E t \in Tasks : CallGetContent(t)
  \/ \E t \in Tasks, a \in Answers(GetOuterHtmlResponses) : GetOuterHtmlReturns(t, a)
  \/ \E t \in Tasks : Return(t)

SpecGet == Init /\ [][NextGet]_vars

\* the description the element gave lists no shadow root
NoShadowRootDescribed ==
  /\ Len(gsr.answers) >= 1
  /\ gsr.answers[1].kind = "return"
  /\ gsr.answers[1].value.result.root.shadowRoots = <<>>

ShadowRootWithoutNodeId ==
  /\ Len(gsr.answers) >= 1
  /\ gsr.answers[1].kind = "return"
  /\ Len(gsr.answers[1].value.result.root.shadowRoots) >= 1
  /\ gsr.answers[1].value.result.root.shadowRoots[1].nodeId = Absent

\* the transport raised in answer to describe_node or to resolve_node
GetTransportFault ==
  \E i \in 1..Len(gsr.answers) : gsr.answers[i].kind = "raise"

\* C20: get_shadow_root raises ShadowRootAccessDenied and constructs no handle
\* when the described shadow root has no node id, and when the transport
\* raises in answer to describe_node or to resolve_node.
C20_UnusableDescriptionDenied ==
  (ShadowRootWithoutNodeId \/ GetTransportFault)
    => /\ gsr.pc = "done"
       /\ gsr.outcome.kind = "raise"
       /\ gsr.outcome.exc.type = "ShadowRootAccessDenied"
       /\ init_outcome = Pending

C20_Witness ==
  /\ ShadowRootWithoutNodeId
  /\ gsr.pc = "done"
  /\ gsr.outcome = Raised(ShadowRootAccessDenied("no nodeId available"))
  /\ Len(gsr.calls) = 1


\* the command a step has just added to the calls of a coroutine
Sends(t) == Len(task'[t].calls) > Len(task[t].calls)
Sent(t) == task'[t].calls[Len(task'[t].calls)]

\* the commands whose target is the object id of the handle
ObjectIdCommands == {"DOM.requestNode", "DOM.getOuterHTML"}

\* a coroutine that awaits the answer to one of its commands
Suspended(tk) == tk.pc \notin {"idle", "done"}

\* C21: whatever invalidate() is interleaved with, a step that builds a command
\* from the object id of the handle (request_node, get_outer_html) is taken
\* while the handle is valid: no such command is built once is_valid is false.
C21_ObjectIdReadOnlyWhileValid ==
  [][ \A t \in Tasks :
        (Sends(t) /\ Sent(t).method \in ObjectIdCommands)
        => /\ is_valid /\ is_valid'
           /\ Sent(t).object_id = shadow_root_object_id ]_vars

C21_Witness ==
  \E t \in Tasks :
    /\ ~is_valid
    /\ FindOne(task[t])
    /\ task[t].valid_at_call
    /\ task[t].pc = "resolve_node"
    /\ task[t].calls[1] = request_node(shadow_root_object_id)

\* C22: a find_element_in_shadow that is suspended on a command when the handle
\* is invalid sends no further command and returns no element.
C22_InvalidatedFindOneStops ==
  [][ \A t \in Tasks :
        (~is_valid /\ FindOne(task[t]) /\ Suspended(task[t]))
        => /\ ~Sends(t)
           /\ ~(/\ task'[t].pc = "done"
                /\ task'[t].outcome.kind = "return"
                /\ task'[t].outcome.value # PyNone) ]_vars

\* C23: once the handle is constructed, a step changes nothing of it but
\* is_valid, is_valid is changed by invalidate() alone, and a step of
\* find_element_in_shadow, find_elements_in_shadow or get_shadow_root_content,
\* however it ends, leaves the whole handle as it was.
C23_OnlyInvalidateChangesHandle ==
  [][ init_outcome.kind = "return"
      => /\ <<init_args, init_outcome, shadow_root_object_id, mode, host_element>>'
              = <<init_args, init_outcome, shadow_root_object_id, mode, host_element>>
         /\ task' # task => is_valid' = is_valid
         /\ is_valid' # is_valid => invalidate ]_vars

C23_Witness ==
  \E t \in Tasks :
    /\ is_valid
    /\ GetContent(task[t])
    /\ task[t].pc = "done"
    /\ Len(task[t].answers) = 1
    /\ task[t].answers[1] = Raised(TransportError)
    /\ shadow_root_object_id = init_args.object_id
    /\ mode = init_args.mode

\* C24: on an invalidated handle find_element_in_shadow and
\* find_elements_in_shadow with an empty or a prohibited selector raise
\* InvalidShadowRoot, not the error of the selector.
C24_AccessCheckedBeforeSelector ==
  \A t \in Tasks :
    (/\ FindOne(task[t]) \/ FindAll(task[t])
     /\ ~task[t].valid_at_call
     /\ EmptySelector(task[t].selector) \/ PiercingSelector(task[t].selector))
    => /\ task[t].pc = "done"
       /\ task[t].outcome.kind = "raise"
       /\ task[t].outcome.exc.type = "InvalidShadowRoot"
       /\ task[t].outcome.exc # InvalidSelector
       /\ ~IsProhibitedSelector(task[t].outcome.exc)

C24_Witness ==
  \E t \in Tasks :
    /\ FindOne(task[t])
    /\ ~task[t].valid_at_call
    /\ PiercingSelector(task[t].selector)
    /\ task[t].outcome = Raised(Invalidated)


\* C25: whatever the method, the first command of find_element_in_shadow is
\* request_node for the object id of the handle, and the match command
\* (query_selector, perform_search) is sent only after it has been answered.
C25_ResolutionBeforeMatch ==
  \A t \in Tasks :
    (FindOne(task[t]) /\ Len(task[t].calls) >= 1)
    => /\ task[t].calls[1] = request_node(shadow_root_object_id)
       /\ \A i \in 1..Len(task[t].calls) :
            task[t].calls[i].method \in {"DOM.querySelector", "DOM.performSearch"}
            => (i >= 2 /\ Len(task[t].answers) >= 1)

\* the node id a response carries
NodeIdOf(answer) == answer.value.result.nodeId

\* C26: in a css find_element_in_shadow the first command is request_node for
\* the object id of the handle, the second is query_selector with the node id
\* the first answer gave and the stripped selector, and the third is
\* resolve_node with the node id the second answer gave.
C26_IdentifiersFlowUnchanged ==
  \A t \in Tasks :
    (FindOne(task[t]) /\ task[t].method = "css")
    => /\ Len(task[t].calls) >= 1
          => task[t].calls[1] = request_node(shadow_root_object_id)
       /\ Len(task[t].calls) >= 2
          => task[t].calls[2] =
               query_selector(NodeIdOf(task[t].answers[1]),
                              PyStr(strip(task[t].selector.s)))
       /\ Len(task[t].calls) >= 3
          => task[t].calls[3] = resolve_node(NodeIdOf(task[t].answers[2]))

C26_Witness ==
  \E t \in Tasks :
    /\ FoundByCss(task[t])
    /\ Len(task[t].calls) = 3
    /\ NodeIdOf(task[t].answers[1]) = PyInt(123)
    /\ NodeIdOf(task[t].answers[2]) = PyInt(456)
    /\ task[t].calls[3] = resolve_node(PyInt(456))

\* an answer after which the operation has nothing to go on with: the
\* transport raised, the reply has no result, or the match found no node
FailedOrMissed(command, answer) ==
  \/ answer.kind = "raise"
  \/ ~HasResult(answer.value)
  \/ /\ command.method = "DOM.querySelector"
     /\ NodeIdOf(answer) \in {Absent, PyInt(0)}
  \/ /\ command.method = "DOM.performSearch"
     /\ answer.value.result.resultCount = 0

\* C28: an operation sends at most three commands, no two of the same kind,
\* and none after an answer that failed or reported no match.
C28_NoRetry ==
  \A t \in Tasks :
    /\ Len(task[t].calls) <= 3
    /\ \A i, j \in 1..Len(task[t].calls) :
         task[t].calls[i].method = task[t].calls[j].method => i = j
    /\ \A i \in 1..Len(task[t].answers) :
         FailedOrMissed(task[t].calls[i], task[t].answers[i])
         => (Len(task[t].calls) = i /\ task[t].pc = "done")

C28_Witness ==
  \E t \in Tasks :
    /\ FindOne(task[t])
    /\ task[t].pc = "done"
    /\ Len(task[t].calls) = 2
    /\ task[t].answers[2] = Raised(TransportError)

\* C29: when the answer to query_selector has no nodeId or nodeId 0,
\* find_element_in_shadow sends no resolve_node and returns no element.
C29_NoNodeIdIsNoMatch ==
  \A t \in Tasks :
    (/\ FindOne(task[t])
     /\ Len(task[t].answers) >= 2
     /\ task[t].answers[2].kind = "return"
     /\ HasResult(task[t].answers[2].value)
     /\ NodeIdOf(task[t].answers[2]) \in {Absent, PyInt(0)})
    => /\ task[t].pc = "done"
       /\ \A i \in 1..Len(task[t].calls) :
            task[t].calls[i].method # "DOM.resolveNode"
       /\ task[t].outcome \in {Returned(PyNone), Raised(ElementNotFound)}

C29_Witness ==
  \E t \in Tasks :
    /\ FindOne(task[t])
    /\ Len(task[t].answers) = 2
    /\ task[t].answers[2] = Returned([result |-> [nodeId |-> PyInt(0)]])
    /\ task[t].outcome = Returned(PyNone)


\* ------------------------------------ one find_element_in_shadow after another
SeqObjectIds == {PyStr("shadow-123"), PyStr("shadow-456")}
SeqModes == {"open", "closed"}
SeqSelectors == {PyStr(<<".", "c">>), PyStr(<<" ", ".", "C", " ">>)}
SeqMethods == {"css"}

\* the node ids the answers to the call's request_node carried
NodeIdsGiven(tk) ==
  IF /\ Len(tk.answers) >= 1
     /\ tk.calls[1].method = "DOM.requestNode"
     /\ tk.answers[1].kind = "return"
     /\ HasResult(tk.answers[1].value)
  THEN {NodeIdOf(tk.answers[1])}
  ELSE {}

\* the caller takes the outcome; what the call was given is kept on record
ReturnSeq(t) ==
  /\ task[t].pc = "done"
  /\ task' = [task EXCEPT ![t] = IdleTask]
  /\ earlier' = earlier \cup NodeIdsGiven(task[t])
  /\ UNCHANGED <<handle_vars, san_vars, gsr>>

NextSeq ==
  \/ \E o \in SeqObjectIds, m \in SeqModes, h \in HostElements : New(o, m, h)
  \/ \E t \in Tasks, s \in SeqSelectors, m \in SeqMethods, r \in BOOLEAN :
       CallFindElement(t, s, m, r)
  \/ \E t \in Tasks, a \in Answers(RequestNodeResponses) : RequestNodeReturns(t, a)
  \/ \E t \in Tasks, a \in Answers(QuerySelectorResponses) : QuerySelectorReturns(t, a)
  \/ \E t \in Tasks, a \in Answers(ResolveNodeResponses) : ResolveNodeReturns(t, a)
  \/ \E t \in Tasks : ReturnSeq(t)

SpecSeq == Init /\ [][NextSeq]_vars

\* C27: every css find_element_in_shadow, also one that follows other calls on
\* the same handle, starts with its own request_node for the object id of the
\* handle, and its query_selector carries the node id its own request_node
\* was answered with, whatever node ids earlier calls were given.
C27_NodeIdNeverReused ==
  \A t \in Tasks :
    (FindOne(task[t]) /\ task[t].method = "css" /\ Len(task[t].calls) >= 1)
    => /\ task[t].calls[1] = request_node(shadow_root_object_id)
       /\ Len(task[t].calls) >= 2
          => /\ task[t].calls[2].method = "DOM.querySelector"
             /\ task[t].calls[2].node_id = NodeIdOf(task[t].answers[1])

C27_Witness ==
  \E t \in Tasks :
    /\ earlier = {PyInt(123)}
    /\ FindOne(task[t])
    /\ Len(task[t].calls) >= 2
    /\ NodeIdOf(task[t].answers[1]) = PyInt(456)
    /\ task[t].calls[2].node_id = PyInt(456)


\* ------------------------------------------- every answer arrives in the end
LiveObjectIds == {PyStr("shadow-123")}
LiveSelectors == {PyNone, PyStr(<<".", "c">>)}

NextLive ==
  \/ \E o \in LiveObjectIds, m \in SeqModes, h \in HostElements : New(o, m, h)
  \/ invalidate
  \/ \E t \in Tasks, s \in LiveSelectors, m \in Methods, r \in BOOLEAN :
       CallFindElement(t, s, m, r)
  \/ \E t \in Tasks, a \in Answers(RequestNodeResponses) : RequestNodeReturns(t, a)
  \/ \E t \in Tasks, a \in Answers(QuerySelectorResponses) : QuerySelectorReturns(t, a)
  \/ \E t \in Tasks, a \in Answers(PerformSearchResponses) : PerformSearchReturns(t, a)
  \/ \E t \in Tasks, a \in Answers(ResolveNodeResponses) : ResolveNodeReturns(t, a)
  \/ \E t \in Tasks, s \in LiveSelectors, m \in Methods : CallFindElements(t, s, m)
  \/ \E t \in Tasks : CallGetContent(t)
  \/ \E t \in Tasks, a \in Answers(GetOuterHtmlResponses) : GetOuterHtmlReturns(t, a)
  \/ \E t \in Tasks : Return(t)

\* execute_command returns or raises in the end, for every command awaited
TransportAnswers ==
  \A t \in Tasks :
    /\ WF_vars(\E a \in Answers(RequestNodeResponses) : RequestNodeReturns(t, a))
    /\ WF_vars(\E a \in Answers(QuerySelectorResponses) : QuerySelectorReturns(t, a))
    /\ WF_vars(\E a \in Answers(PerformSearchResponses) : PerformSearchReturns(t, a))
    /\ WF_vars(\E a \in Answers(ResolveNodeResponses) : ResolveNodeReturns(t, a))
    /\ WF_vars(\E a \in Answers(GetOuterHtmlResponses) : GetOuterHtmlReturns(t, a))

SpecLive == Init /\ [][NextLive]_vars /\ TransportAnswers

\* C30: when every command awaited is answered in the end, every
\* find_element_in_shadow, find_elements_in_shadow and get_shadow_root_content
\* that waits for an answer ends with a result or an error.
C30_OperationsTerminate ==
  \A t \in Tasks : Suspended(task[t]) ~> task[t].pc = "done"

C30_Witness ==
  \E t \in Tasks :
    /\ FindOne(task[t])
    /\ task[t].pc = "done"
    /\ Len(task[t].calls) = 3
    /\ Len(task[t].answers) = 3
    /\ task[t].outcome # Pending


\* C31: a constructed handle, valid or invalidated, has an object id that is
\* a non-empty string and a mode that is 'open' or 'closed', and exactly one
\* of is_open and is_closed holds.
C31_HandleWellFormed ==
  init_outcome.kind = "return"
    => /\ IsStr(shadow_root_object_id)
       /\ Len(shadow_root_object_id.s) # 0
       /\ mode \in {"open", "closed"}
       /\ is_open # is_closed
       /\ is_open <=> mode = "open"

C31_Witness ==
  /\ init_outcome.kind = "return"
  /\ ~is_valid
  /\ shadow_root_object_id = PyStr("shadow-456")
  /\ is_closed
  /\ ~is_open

\* the selector a match command carries
MatchSelector(command) ==
  IF command.method = "DOM.querySelector" THEN command.selector
  ELSE command.query

\* C32: the selector of every query_selector and every perform_search sent is
\* a non-empty string.
C32_MatchSelectorNonEmpty ==
  \A t \in Tasks : \A i \in 1..Len(task[t].calls) :
    task[t].calls[i].method \in {"DOM.querySelector", "DOM.performSearch"}
    => /\ IsStr(MatchSelector(task[t].calls[i]))
       /\ Len(MatchSelector(task[t].calls[i]).s) # 0

\* a find_element_in_shadow on a valid handle with a method that is neither
\* 'css' nor 'xpath'
UnsupportedMethod(tk) ==
  FindOne(tk) /\ tk.valid_at_call /\ tk.method \notin {"css", "xpath"}

\* the statement of C33 for every selector: the outcome is that of a miss
C33_UnsupportedMethodIsMiss ==
  \A t \in Tasks :
    UnsupportedMethod(task[t])
    => /\ task[t].pc = "done"
       /\ Len(task[t].calls) = 0
       /\ task[t].outcome = MissOutcome(task[t])

\* C33: find_element_in_shadow on a valid handle with a method that is neither
\* 'css' nor 'xpath' sends no command and never raises the unsupported-method
\* error; when the selector passes sanitization it raises ElementNotFound if
\* raise_exc is true and returns None if it is false, and when the selector
\* does not, the error of the selector is raised.
C33_UnsupportedMethodIsMissForCleanSelector ==
  \A t \in Tasks :
    UnsupportedMethod(task[t])
    => /\ task[t].pc = "done"
       /\ Len(task[t].calls) = 0
       /\ task[t].outcome # Raised(ValueError("Unsupported selection method"))
       /\ IF EmptySelector(task[t].selector)
          THEN task[t].outcome = Raised(InvalidSelector)
          ELSE IF PiercingSelector(task[t].selector)
          THEN /\ task[t].outcome.kind = "raise"
               /\ IsProhibitedSelector(task[t].outcome.exc)
          ELSE task[t].outcome = MissOutcome(task[t])

C33_Witness ==
  \E t \in Tasks :
    /\ UnsupportedMethod(task[t])
    /\ task[t].method = "id"
    /\ task[t].selector = PyStr(<<".", "c">>)
    /\ ~task[t].raise_exc
    /\ task[t].outcome = Returned(PyNone)
    /\ Len(task[t].calls) = 0

====
